---- MODULE Spec2Model ----
(***************************************************************************)
(* Model of qdata/generators/display.py: comment classification and        *)
(* formatting, the entity parsers, the renderer registry and generate_md.  *)
(*                                                                         *)
(* Strings that the code takes apart (paths, file names, file text) are    *)
(* sequences of one-character strings; strings the code only copies        *)
(* (record fields, the type name) are TLA+ strings.                        *)
(***************************************************************************)
EXTENDS Integers, Sequences, FiniteSets, TLC

VARIABLES
  fs,       \* the filesystem: absolute path -> entry
  call,     \* the invocation under way: operation and arguments
  outcome,  \* what the invocation returned or raised
  pc,       \* position inside the invocation
  target,   \* generate_md: the output path (line 226)
  data,     \* generate_md: the unwrapped record (line 231)
  renderer, \* generate_md: the renderer class chosen (line 237)
  vals,     \* generate_md: vals_dict (line 240)
  output,   \* generate_md: the rendered text (line 241)
  log       \* filesystem accesses made so far, in order

vars == <<fs, call, outcome, pc, target, data, renderer, vals, output, log>>

(***************************************************************************)
(* Bounds of the model.                                                    *)
(***************************************************************************)
MaxComments == 2
MaxListing == 2

(***************************************************************************)
(* str operations                                                          *)
(***************************************************************************)
UpperCase == <<"A","B","C","D","E","F","G","H","I","J","K","L","M",
               "N","O","P","Q","R","S","T","U","V","W","X","Y","Z">>
LowerCase == <<"a","b","c","d","e","f","g","h","i","j","k","l","m",
               "n","o","p","q","r","s","t","u","v","w","x","y","z">>

LowerChar(c) ==
  IF \E i \in 1..26 : UpperCase[i] = c
  THEN LowerCase[CHOOSE i \in 1..26 : UpperCase[i] = c]
  ELSE c

\* str.lower()
Lower(s) == [i \in 1..Len(s) |-> LowerChar(s[i])]

\* s[1::]
DropFirst(s) == IF s = <<>> THEN <<>> ELSE Tail(s)

\* str.rfind(c), 1-based; 0 when c does not occur
RFind(s, c) ==
  IF \E i \in 1..Len(s) : s[i] = c
  THEN CHOOSE i \in 1..Len(s) : s[i] = c /\ \A j \in (i+1)..Len(s) : s[j] # c
  ELSE 0

(***************************************************************************)
(* pathlib.Path                                                            *)
(***************************************************************************)
Cwd == <<"/","w">>

\* Path.name: the final component
Name(p) == SubSeq(p, RFind(p, "/") + 1, Len(p))

\* Path.suffix: from the last dot of the name, unless the dot is the name's
\* first or last character
Suffix(p) ==
  LET name == Name(p)
      i == RFind(name, ".")
  IN IF 1 < i /\ i < Len(name) THEN SubSeq(name, i, Len(name)) ELSE <<>>

\* Path.stem
Stem(p) ==
  LET name == Name(p)
      i == RFind(name, ".")
  IN IF 1 < i /\ i < Len(name) THEN SubSeq(name, 1, i - 1) ELSE name

\* Path.__truediv__
Join(p, name) == p \o <<"/">> \o name

\* Path.absolute()
Absolute(p) == IF p # <<>> /\ p[1] = "/" THEN p ELSE Join(Cwd, p)

(***************************************************************************)
(* The filesystem.  An entry is a regular file, a directory, or something  *)
(* that is neither (a socket, a dangling link).                            *)
(***************************************************************************)
NoText == [form |-> "text", chars |-> <<>>, template |-> "", vals |-> <<>>]
TextOf(chars) == [form |-> "text", chars |-> chars, template |-> "", vals |-> <<>>]

File(chars) == [kind |-> "file", content |-> TextOf(chars), listing |-> <<>>]
Dir(names) == [kind |-> "dir", content |-> NoText, listing |-> names]
Other == [kind |-> "other", content |-> NoText, listing |-> <<>>]

\* Path.is_file()
IsFile(p) == Absolute(p) \in DOMAIN fs /\ fs[Absolute(p)].kind = "file"

\* Path.is_dir()
IsDir(p) == Absolute(p) \in DOMAIN fs /\ fs[Absolute(p)].kind = "dir"

(***************************************************************************)
(* Outcomes of a call                                                      *)
(***************************************************************************)
NoExc == [type |-> "", msg |-> ""]
Pending == [status |-> "pending", value |-> <<>>, exc |-> NoExc]
Return(v) == [status |-> "returned", value |-> v, exc |-> NoExc]
Raise(e) == [status |-> "raised", value |-> <<>>, exc |-> e]

\* line 37: the error the specification calls UnsupportedCommentType
UnsupportedCommentType == [type |-> "ValueError", msg |-> "File type is not supported."]
\* line 236: the error the specification calls UnknownEntityType
UnknownEntityType == [type |-> "ValueError", msg |-> "Does not have a renderer."]

(***************************************************************************)
(* SupportedCommentType                                                    *)
(***************************************************************************)
\* the enum's members by name (cls[...] looks a member up by its name)
SupportedCommentTypeMembers ==
  (<<"m","d">> :> "md") @@
  (<<"s","t","r","i","n","g">> :> "string") @@
  (<<"d","i","r">> :> "dir") @@
  (<<"j","p","g">> :> "jpg") @@
  (<<"p","n","g">> :> "png")

\* a plausible slip: the extension is looked up without lower-casing it
ClassifyCaseSensitive(path) ==
  LET ext == Suffix(path) IN
  IF IsFile(path)
  THEN IF DropFirst(ext) \in DOMAIN SupportedCommentTypeMembers
       THEN Return(SupportedCommentTypeMembers[DropFirst(ext)])
       ELSE Raise(UnsupportedCommentType)
  ELSE IF IsDir(path) THEN Return("dir") ELSE Return("string")

\* SupportedCommentType.classify
Classify(path) ==
  LET ext == Suffix(path) IN
  IF IsFile(path)
  THEN LET member == DropFirst(Lower(ext)) IN
       IF member \in DOMAIN SupportedCommentTypeMembers
       THEN Return(SupportedCommentTypeMembers[member])
       ELSE Raise(UnsupportedCommentType)
  ELSE IF IsDir(path) THEN Return("dir") ELSE Return("string")

(***************************************************************************)
(* get_all_files                                                           *)
(***************************************************************************)
\* what Path.iterdir() raises (line 55) on a path that is no directory
NotADirectoryError == [type |-> "NotADirectoryError", msg |-> "Not a directory"]

\* a value bound to a name of a block: Let(v, LAMBDA x : e) is e with v for x
Let(v, Body(_)) == Body(v)

RECURSIVE GetAllFiles(_)
RECURSIVE WalkItems(_, _)

\* the loop of lines 55-59 over the rest of a directory's listing: the files
\* found and the directories listed on the way
WalkItems(path, names) ==
  IF names = <<>> THEN [files |-> <<>>, events |-> <<>>]
  ELSE Let(Join(path, Head(names)), LAMBDA item :
       Let(IF IsFile(item) THEN [files |-> <<Absolute(item)>>, events |-> <<>>]
           ELSE IF IsDir(item)
                THEN Let(GetAllFiles(item), LAMBDA sub :
                         [files |-> sub.value, events |-> sub.events])
                ELSE [files |-> <<>>, events |-> <<>>], LAMBDA here :
       Let(WalkItems(path, Tail(names)), LAMBDA rest :
           [files |-> here.files \o rest.files, events |-> here.events \o rest.events])))

\* get_all_files
GetAllFiles(path) ==
  IF ~IsDir(path)
  THEN [status |-> "raised", value |-> <<>>, exc |-> NotADirectoryError,
        events |-> << <<"iterdir", path>> >>]
  ELSE Let(WalkItems(path, fs[Absolute(path)].listing), LAMBDA w :
           [status |-> "returned", value |-> w.files, exc |-> NoExc,
            events |-> << <<"iterdir", path>> >> \o w.events])

(***************************************************************************)
(* EntityRenderer.format_comment                                           *)
(***************************************************************************)
RECURSIVE UniversalNewlines(_)
\* what a text-mode read (open(path, 'r'), newline=None) delivers: "\r\n" and a
\* lone "\r" both arrive as "\n"
UniversalNewlines(s) ==
  IF s = <<>> THEN <<>>
  ELSE IF Head(s) = "\r"
       THEN <<"\n">> \o UniversalNewlines(IF Len(s) > 1 /\ s[2] = "\n"
                                           THEN Tail(Tail(s)) ELSE Tail(s))
       ELSE <<Head(s)>> \o UniversalNewlines(Tail(s))

\* a plausible slip: the file is read without newline translation
ReadTextRaw(path) == fs[Absolute(path)].content.chars

\* lines 88-89: open(md_path, 'r') and f.read()
ReadText(path) == UniversalNewlines(fs[Absolute(path)].content.chars)

\* line 103: f"![{pic_path.stem}]({pic_path.absolute()})"
ImageDirective(path) ==
  <<"!","[">> \o Stem(path) \o <<"]","(">> \o Absolute(path) \o <<")">>

\* results of format_comment: one pair, two parallel lists, or an exception
Single(k, v, ev) ==
  [status |-> "returned", many |-> FALSE, key |-> k, val |-> v, exc |-> NoExc, events |-> ev]
Many(ks, vs, ev) ==
  [status |-> "returned", many |-> TRUE, key |-> ks, val |-> vs, exc |-> NoExc, events |-> ev]
Fail(e, ev) ==
  [status |-> "raised", many |-> FALSE, key |-> <<>>, val |-> <<>>, exc |-> e, events |-> ev]

RECURSIVE FormatComment(_)
RECURSIVE FormatFiles(_, _, _, _)

\* the loop of lines 109-116 over the rest of the files of a directory
FormatFiles(files, key, val, events) ==
  IF files = <<>> THEN Many(key, val, events)
  ELSE Let(FormatComment(Head(files)), LAMBDA r :
       IF r.status = "raised" THEN Fail(r.exc, events \o r.events)
       ELSE FormatFiles(Tail(files),
                        IF r.many THEN key \o r.key ELSE Append(key, r.key),
                        IF r.many THEN val \o r.val ELSE Append(val, r.val),
                        events \o r.events))

\* format_comment
FormatComment(comment) ==
  Let(Classify(comment), LAMBDA c :
  Let(<< <<"classify", comment>> >>, LAMBDA ev :
     IF c.status = "raised" THEN Fail(c.exc, ev)
     ELSE IF c.value = "md"
          THEN Single(Stem(comment), ReadText(comment), Append(ev, <<"read", comment>>))
     ELSE IF c.value = "string"
          THEN Single(comment, comment, ev)
     ELSE IF c.value = "jpg" \/ c.value = "png"
          THEN Single(Stem(comment), ImageDirective(comment), ev)
     ELSE \* c.value = "dir"
          Let(GetAllFiles(comment), LAMBDA all :
          IF all.status = "raised" THEN Fail(all.exc, ev \o all.events)
          ELSE FormatFiles(all.value, <<>>, <<>>, ev \o all.events))))

(***************************************************************************)
(* Specification of classify alone: a name under every nature.             *)
(***************************************************************************)
IdleFrame ==
  /\ target = <<>>
  /\ data = <<>>
  /\ renderer = ""
  /\ vals = <<>>
  /\ output = NoText

ClassifyStems == { <<"a">>, <<".","h">>, <<"a",".","m","d">>, <<>> }
ClassifyExts ==
  { <<>>, <<".">>,
    <<".","m","d">>, <<".","M","D">>, <<".","M","d">>,
    <<".","j","p","g">>, <<".","J","P","G">>,
    <<".","p","n","g">>, <<".","P","n","G">>,
    <<".","s","t","r","i","n","g">>, <<".","d","i","r">>, <<".","D","I","R">>,
    <<".","t","x","t">>, <<".","j","p","e","g">>, <<".","m">>, <<".","m","d","x">> }
ClassifyPrefixes == { <<>>, <<"v",".","m","d","/">> }
Natures == { "file", "dir", "other", "absent" }

\* the working directory, holding the directory v.md
ClassifyBaseFS ==
  (Cwd :> Dir(<< <<"v",".","m","d">> >>)) @@
  (Join(Cwd, <<"v",".","m","d">>) :> Dir(<<>>))

EntryOf(nature) ==
  IF nature = "file" THEN File(<<"x">>)
  ELSE IF nature = "dir" THEN Dir(<<>>)
  ELSE Other

InitClassify ==
  \E prefix \in ClassifyPrefixes, stem \in ClassifyStems,
     ext \in ClassifyExts, nature \in Natures :
    LET name == stem \o ext
        path == prefix \o name
    IN /\ name \notin { <<>>, <<".">> }
       /\ fs = IF nature = "absent" THEN ClassifyBaseFS
               ELSE (Absolute(path) :> EntryOf(nature)) @@ ClassifyBaseFS
       /\ call = [op |-> "classify", arg |-> path]
       /\ outcome = Pending
       /\ pc = "call"
       /\ log = <<>>
       /\ IdleFrame

\* a caller's classify(path)
ClassifyCall ==
  /\ pc = "call"
  /\ call.op = "classify"
  /\ outcome' = Classify(call.arg)
  /\ pc' = "done"
  /\ UNCHANGED <<fs, call, target, data, renderer, vals, output, log>>

NextClassify == ClassifyCall

SpecClassify == InitClassify /\ [][NextClassify]_vars

(***************************************************************************)
(* Claims about classify                                                   *)
(***************************************************************************)
\* the extension as line 35 takes it: lower-cased, without the leading dot
ExtensionOf(path) == DropFirst(Lower(Suffix(path)))

MdExt == <<"m","d">>
JpgExt == <<"j","p","g">>
PngExt == <<"p","n","g">>
SupportedExts == { MdExt, JpgExt, PngExt }

ClassifyDone == pc = "done" /\ call.op = "classify"

\* C1 (as claimed): classify of an existing file whose extension is not md,
\* jpg or png fails with UnsupportedCommentType and never returns a kind.
C1_UnsupportedFileRaises ==
  (ClassifyDone /\ IsFile(call.arg) /\ ExtensionOf(call.arg) \notin SupportedExts)
    => outcome = Raise(UnsupportedCommentType)

\* the results C2 names: classify returns md, jpg, png for an existing file with that extension
\* in any letter case, dir for every existing directory and string for every
\* reference that is no filesystem entry; it leaves the filesystem as it was.
C2_ResultByNature ==
  ClassifyDone =>
    /\ (IsFile(call.arg) /\ ExtensionOf(call.arg) = MdExt) => outcome = Return("md")
    /\ (IsFile(call.arg) /\ ExtensionOf(call.arg) = JpgExt) => outcome = Return("jpg")
    /\ (IsFile(call.arg) /\ ExtensionOf(call.arg) = PngExt) => outcome = Return("png")
    /\ IsDir(call.arg) => outcome = Return("dir")
    /\ Absolute(call.arg) \notin DOMAIN fs => outcome = Return("string")

\* C2: in every state reached classify has answered by the reference's nature
\* as above, and no step of it changes the filesystem.
C2_ClassifyTotalAndPure == []C2_ResultByNature /\ [][fs' = fs]_vars

\* an existing file A.MD was classified md
C2_Witness ==
  /\ ClassifyDone
  /\ IsFile(call.arg)
  /\ Suffix(call.arg) = <<".","M","D">>
  /\ outcome = Return("md")

(***************************************************************************)
(* Specification of format_comment alone: the working directory holds a    *)
(* few files of every sort and a directory d whose listing, and that of    *)
(* its subdirectory s, range over the short listings without repetition.   *)
(***************************************************************************)
\* sequences over S without repetition, of length at most n
Listings(S, n) ==
  UNION { { l \in [1..k -> S] : \A i, j \in 1..k : l[i] = l[j] => i = j } : k \in 0..n }

NotesMd == <<"n","o","t","e","s",".","m","d">>
MacMd == <<"m","a","c",".","M","D">>
PicJpg == <<"p","i","c",".","j","p","g">>
LogoPng == <<"L","o","g","o",".","P","N","G">>
AMd == <<"a",".","m","d">>
AJpg == <<"a",".","j","p","g">>
BPng == <<"b",".","P","N","G">>
CJpg == <<"c",".","j","p","g">>
KPng == <<"k",".","p","n","g">>
ZTxt == <<"z",".","t","x","t">>
QString == <<"q",".","s","t","r","i","n","g">>
YDir == <<"y",".","d","i","r">>
Readme == <<"R","E","A","D","M","E">>
Sock == <<"s","o","c","k">>
DirD == <<"d">>
DirS == <<"s">>
DirE == <<"e">>
Hello == <<"h","e","l","l","o"," ","w","o","r","l","d">>
GhostMd == <<"g","h","o","s","t",".","m","d">>

\* what may stand in d, and in d/s
PoolD == { AMd, BPng, CJpg, ZTxt, QString, YDir, Readme, Sock, DirS, DirE }
PoolS == { AMd, KPng, ZTxt, DirE }

\* the text of a file, by its place
FileTextAt(path) ==
  IF Name(path) = NotesMd THEN <<"H","i","\r","\n","y","o","\n">>
  ELSE IF Name(path) = MacMd THEN <<"a","\r","b","\r">>
  ELSE IF Name(path) = AMd
       THEN IF path = Join(Cwd, AMd) THEN <<"c","w","d">>
            ELSE IF path = Join(Join(Cwd, DirD), AMd) THEN <<"t","o","p","\r","\n">>
            ELSE <<"d","e","e","p","\n">>
  ELSE <<"x">>

EntryAt(path, subListing) ==
  IF Name(path) = DirS THEN Dir(subListing)
  ELSE IF Name(path) = DirE THEN Dir(<<>>)
  ELSE IF Name(path) = Sock THEN Other
  ELSE File(FileTextAt(path))

\* the entries of a directory with the given listing
Children(dir, listing, subListing) ==
  [ p \in { Join(dir, listing[i]) : i \in 1..Len(listing) } |-> EntryAt(p, subListing) ]

TopLevel == << NotesMd, MacMd, PicJpg, LogoPng, ZTxt, QString, YDir, Readme, DirD >>

FormatFS(dListing, sListing) ==
  LET d == Join(Cwd, DirD) IN
  (Cwd :> Dir(TopLevel)) @@
  (d :> Dir(dListing)) @@
  [ p \in { Join(Cwd, TopLevel[i]) : i \in 1..(Len(TopLevel) - 1) } |-> File(FileTextAt(p)) ] @@
  Children(d, dListing, sListing) @@
  Children(Join(d, DirS), sListing, <<>>)

FormatRefs ==
  { NotesMd, MacMd, PicJpg, LogoPng, ZTxt, QString, YDir, Readme, Hello, GhostMd,
    Join(Cwd, PicJpg), DirD }

InitFormat ==
  \E dListing \in Listings(PoolD, MaxListing), ref \in FormatRefs :
  \E sListing \in IF \E i \in 1..Len(dListing) : dListing[i] = DirS
                  THEN Listings(PoolS, MaxListing) ELSE { <<>> } :
    /\ (ref # DirD => dListing = <<>>)
    /\ fs = FormatFS(dListing, sListing)
    /\ call = [op |-> "format_comment", arg |-> ref]
    /\ outcome = Pending
    /\ pc = "call"
    /\ log = <<>>
    /\ IdleFrame

\* a caller's EntityRenderer.format_comment(comment)
FormatCall ==
  /\ pc = "call"
  /\ call.op = "format_comment"
  /\ \E r \in { FormatComment(call.arg) } :
       /\ outcome' = [status |-> r.status, many |-> r.many,
                      key |-> r.key, val |-> r.val, exc |-> r.exc]
       /\ log' = log \o r.events
  /\ pc' = "done"
  /\ UNCHANGED <<fs, call, target, data, renderer, vals, output>>

NextFormat == FormatCall

SpecFormat == InitFormat /\ [][NextFormat]_vars

(***************************************************************************)
(* Claims about format_comment                                             *)
(***************************************************************************)
FormatDone == pc = "done" /\ call.op = "format_comment"

\* the files of the tree under the directory formatted, in traversal order
TreeFiles == GetAllFiles(call.arg).value

Unsupported(file) == ExtensionOf(file) \notin SupportedExts

\* C7 (as claimed): formatting a directory whose tree holds N files, all
\* supported, returns two flat lists of length N, one pair per leaf file in
\* traversal order; if the tree holds a file with an unsupported extension
\* the call fails with UnsupportedCommentType.
C7_DirectoryFlattenedOrRejected ==
  (FormatDone /\ IsDir(call.arg)) =>
    IF \E i \in 1..Len(TreeFiles) : Unsupported(TreeFiles[i])
    THEN /\ outcome.status = "raised"
         /\ outcome.exc = UnsupportedCommentType
    ELSE /\ outcome.status = "returned"
         /\ outcome.many
         /\ Len(outcome.key) = Len(TreeFiles)
         /\ Len(outcome.val) = Len(TreeFiles)
         /\ \A i \in 1..Len(TreeFiles) : outcome.key[i] = Stem(TreeFiles[i])

\* the kind format_comment acts on
KindOf(ref) == Classify(ref).value

RawText(ref) == fs[Absolute(ref)].content.chars

ExpectedDirective(ref) ==
  <<"!","[">> \o Stem(ref) \o <<"]","(">> \o Absolute(ref) \o <<")">>

OnePair(k, v) ==
  /\ outcome.status = "returned"
  /\ ~outcome.many
  /\ outcome.key = k
  /\ outcome.val = v

\* C9 (as claimed): a non-directory reference formats to exactly one pair:
\* Markdown (stem, the file's full text unchanged), PlainText (s, s), Image
\* (stem, image directive with the stem as alt text and the absolute path).
C9_OnePairTextUnchanged ==
  (FormatDone /\ Classify(call.arg).status = "returned") =>
    /\ KindOf(call.arg) = "md" => OnePair(Stem(call.arg), RawText(call.arg))
    /\ KindOf(call.arg) = "string" => OnePair(call.arg, call.arg)
    /\ KindOf(call.arg) \in {"jpg", "png"} =>
         OnePair(Stem(call.arg), ExpectedDirective(call.arg))

RECURSIVE NormalizedFrom(_, _)
\* raw from position i on, without each "\n" that follows a "\r" and with
\* every "\r" turned into "\n"
NormalizedFrom(raw, i) ==
  IF i > Len(raw) THEN <<>>
  ELSE IF raw[i] = "\n" /\ i > 1 /\ raw[i - 1] = "\r"
       THEN NormalizedFrom(raw, i + 1)
       ELSE <<IF raw[i] = "\r" THEN "\n" ELSE raw[i]>> \o NormalizedFrom(raw, i + 1)

\* C9 (amended): as claimed, except that the Markdown value is the file's
\* text as a text-mode read delivers it: every "\r\n" and every lone "\r"
\* arrives as "\n".
C9_OnePairTextAsRead ==
  (FormatDone /\ Classify(call.arg).status = "returned") =>
    /\ KindOf(call.arg) = "md" =>
         OnePair(Stem(call.arg), NormalizedFrom(RawText(call.arg), 1))
    /\ KindOf(call.arg) = "string" => OnePair(call.arg, call.arg)
    /\ KindOf(call.arg) \in {"jpg", "png"} =>
         OnePair(Stem(call.arg), ExpectedDirective(call.arg))

\* a Markdown file holding "\r\n" was formatted
C9_Witness ==
  /\ FormatDone
  /\ KindOf(call.arg) = "md"
  /\ \E i \in 1..Len(RawText(call.arg)) : RawText(call.arg)[i] = "\r"
  /\ outcome.status = "returned"
  /\ outcome.key = <<"n","o","t","e","s">>

(***************************************************************************)
(* EntityRenderer.parser and its overrides.  A record (a dict) is a        *)
(* function from field names; the comments dict is the sequence of its     *)
(* (key, value) pairs in insertion order; None is <<>> and a present       *)
(* parent is a one-element sequence.                                       *)
(***************************************************************************)
KeyError(k) == [type |-> "KeyError", msg |-> k]

\* a plausible slip: a key already present keeps its first value
DictSetKeepFirst(d, k, v) ==
  IF \E i \in 1..Len(d) : d[i][1] = k THEN d ELSE Append(d, <<k, v>>)

\* comments[k] = v  (lines 148, 150)
DictSet(d, k, v) ==
  IF \E i \in 1..Len(d) : d[i][1] = k
  THEN [d EXCEPT ![CHOOSE i \in 1..Len(d) : d[i][1] = k] = <<k, v>>]
  ELSE Append(d, <<k, v>>)

RECURSIVE InsertPairs(_, _, _)
\* lines 147-148: for k, v in zip(key, val): comments[k] = v
InsertPairs(d, key, val) ==
  IF key = <<>> \/ val = <<>> THEN d
  ELSE InsertPairs(DictSet(d, Head(key), Head(val)), Tail(key), Tail(val))

RECURSIVE ParseComments(_, _, _)
\* the loop of lines 143-150 over the rest of data['comments']
ParseComments(coms, comments, events) ==
  IF coms = <<>>
  THEN [status |-> "returned", value |-> comments, exc |-> NoExc, events |-> events]
  ELSE Let(FormatComment(Head(coms)), LAMBDA r :
       IF r.status = "raised"
       THEN [status |-> "raised", value |-> <<>>, exc |-> r.exc,
             events |-> events \o r.events]
       ELSE ParseComments(Tail(coms),
                          IF r.many THEN InsertPairs(comments, r.key, r.val)
                                    ELSE DictSet(comments, r.key, r.val),
                          events \o r.events))

\* the first key of keys, in order, that the record lacks; "" when none
FirstMissing(d, keys) ==
  IF \E i \in 1..Len(keys) : keys[i] \notin DOMAIN d
  THEN keys[CHOOSE i \in 1..Len(keys) :
              keys[i] \notin DOMAIN d /\ \A j \in 1..(i - 1) : keys[j] \in DOMAIN d]
  ELSE ""

ParserRaise(e, ev) == [status |-> "raised", value |-> <<>>, exc |-> e, events |-> ev]

\* EntityRenderer.parser (lines 122-155)
EntityParser(d) ==
  Let(FirstMissing(d, <<"name", "type", "ID", "user", "description",
                        "parent_link", "comments">>), LAMBDA early :
  IF early # "" THEN ParserRaise(KeyError(early), <<>>)
  ELSE Let(ParseComments(d["comments"], <<>>, <<>>), LAMBDA coms :
       IF coms.status = "raised" THEN ParserRaise(coms.exc, coms.events)
       ELSE IF "related_links" \notin DOMAIN d
            THEN ParserRaise(KeyError("related_links"), coms.events)
       ELSE [status |-> "returned", exc |-> NoExc, events |-> coms.events,
             value |-> [name |-> d["name"],
                        type |-> d["type"],
                        ID |-> d["ID"],
                        user |-> d["user"],
                        description |-> d["description"],
                        parent |-> IF d["parent_link"] = "" THEN <<>>
                                   ELSE <<d["parent_link"]>>,
                        comments |-> coms.value,
                        children |-> d["related_links"]]]))

\* TaskRenderer.parser (lines 167-175)
TaskParser(d) ==
  Let(EntityParser(d), LAMBDA base :
  Let(FirstMissing(d, <<"objective", "process", "start_time", "end_time">>), LAMBDA missing :
  IF base.status = "raised" THEN base
  ELSE IF missing # "" THEN ParserRaise(KeyError(missing), base.events)
  ELSE [base EXCEPT !.value =
          [objective |-> d["objective"], process |-> d["process"],
           start_time |-> d["start_time"], end_time |-> d["end_time"]] @@ base.value]))

\* a plausible slip: Step parsed as Task, the record's process copied
StepParserCopiesProcess(d) == TaskParser(d)

\* StepRenderer.parser (lines 184-192)
StepParser(d) ==
  Let(EntityParser(d), LAMBDA base :
  Let(FirstMissing(d, <<"objective", "start_time", "end_time">>), LAMBDA missing :
  IF base.status = "raised" THEN base
  ELSE IF missing # "" THEN ParserRaise(KeyError(missing), base.events)
  ELSE [base EXCEPT !.value =
          [objective |-> d["objective"], process |-> "",
           start_time |-> d["start_time"], end_time |-> d["end_time"]] @@ base.value]))

(***************************************************************************)
(* AvailableRenderers                                                      *)
(***************************************************************************)
\* the members of the enum and the renderer class each holds
AvailableRenderers ==
  [Entity |-> "EntityRenderer", Project |-> "ProjectRenderer",
   Task |-> "TaskRenderer", Step |-> "StepRenderer"]

\* names the enum class answers hasattr() for without their being members
NonMemberAttributes == { "__members__", "__name__", "mro" }

\* hasattr(AvailableRenderers, name)  (line 235)
HasAttr(name) == name \in DOMAIN AvailableRenderers \/ name \in NonMemberAttributes

\* renderer.template.name
TemplateOf(cls) ==
  IF cls \in {"TaskRenderer", "StepRenderer"} THEN "md_task.jinja" ELSE "md_entity.jinja"

\* renderer.parser(data): ProjectRenderer inherits EntityRenderer's
ParserOf(cls, d) ==
  IF cls = "TaskRenderer" THEN TaskParser(d)
  ELSE IF cls = "StepRenderer" THEN StepParser(d)
  ELSE EntityParser(d)

(***************************************************************************)
(* generate_md, one action per stretch of the function between two         *)
(* filesystem accesses.                                                    *)
(***************************************************************************)
\* Path(None) (line 226)
TypeError == [type |-> "TypeError", msg |-> "expected str, bytes or os.PathLike object, not NoneType"]
\* getattr(AvailableRenderers, name).value on a non-member (line 237)
AttributeError == [type |-> "AttributeError", msg |-> "value"]
\* open(target, 'w') under a directory that does not exist (line 243)
FileNotFoundError == [type |-> "FileNotFoundError", msg |-> "No such file or directory"]

MdSuffix == <<".","m","d">>

\* Path.parent
Parent(p) == SubSeq(p, 1, RFind(p, "/") - 1)

\* what template.render(vals_dict) returns: the template engine is external,
\* its text is known by the template and the mapping it was given
Rendered(template, mapping) ==
  [form |-> "rendered", chars |-> <<>>, template |-> template, vals |-> mapping]

\* the filesystem after open(path, 'w') and f.write(text)
WriteFile(path, text) ==
  LET abs == Absolute(path)
      dir == Parent(abs)
      names == fs[dir].listing
      listed == \E i \in 1..Len(names) : names[i] = Name(abs)
  IN (abs :> [kind |-> "file", content |-> text, listing |-> <<>>]) @@
     (dir :> [fs[dir] EXCEPT !.listing = IF listed THEN names ELSE Append(names, Name(abs))]) @@
     fs

\* lines 223-226
Start ==
  /\ pc = "start"
  /\ IF call.target.given
     THEN /\ target' = Join(call.target.path, Stem(call.source) \o MdSuffix)
          /\ pc' = "load"
          /\ UNCHANGED outcome
     ELSE \* os.getcwd() is called and its value dropped; Path(None) raises
          /\ outcome' = Raise(TypeError)
          /\ pc' = "raised"
          /\ UNCHANGED target
  /\ UNCHANGED <<fs, call, data, renderer, vals, output, log>>

\* lines 228-231: load the source and unwrap the table under its first key
Load ==
  /\ pc = "load"
  /\ data' = fs[Absolute(call.source)].content.vals[1][2]
  /\ log' = Append(log, <<"read", call.source>>)
  /\ pc' = "dispatch"
  /\ UNCHANGED <<fs, call, outcome, target, renderer, vals, output>>

\* a plausible slip: the output file is opened for writing before the record
\* is dispatched and parsed
DispatchOpensOutputFirst ==
  /\ pc = "dispatch"
  /\ IF ~HasAttr(data["type"])
     THEN /\ outcome' = Raise(UnknownEntityType)
          /\ pc' = "raised"
          /\ UNCHANGED renderer
     ELSE IF data["type"] \notin DOMAIN AvailableRenderers
     THEN /\ outcome' = Raise(AttributeError)
          /\ pc' = "raised"
          /\ UNCHANGED renderer
     ELSE /\ renderer' = AvailableRenderers[data["type"]]
          /\ pc' = "parse"
          /\ UNCHANGED outcome
  /\ IF IsDir(Parent(Absolute(target)))
     THEN /\ fs' = WriteFile(target, NoText)
          /\ log' = Append(log, <<"write", target>>)
     ELSE UNCHANGED <<fs, log>>
  /\ UNCHANGED <<call, target, data, vals, output>>

\* lines 233-238
Dispatch ==
  /\ pc = "dispatch"
  /\ IF ~HasAttr(data["type"])
     THEN /\ outcome' = Raise(UnknownEntityType)
          /\ pc' = "raised"
          /\ UNCHANGED renderer
     ELSE IF data["type"] \notin DOMAIN AvailableRenderers
     THEN /\ outcome' = Raise(AttributeError)
          /\ pc' = "raised"
          /\ UNCHANGED renderer
     ELSE /\ renderer' = AvailableRenderers[data["type"]]
          /\ pc' = "parse"
          /\ UNCHANGED outcome
  /\ UNCHANGED <<fs, call, target, data, vals, output, log>>

\* line 240
Parse ==
  /\ pc = "parse"
  /\ \E r \in { ParserOf(renderer, data) } :
       /\ log' = log \o r.events
       /\ IF r.status = "raised"
          THEN /\ outcome' = Raise(r.exc)
               /\ pc' = "raised"
               /\ UNCHANGED vals
          ELSE /\ vals' = r.value
               /\ pc' = "render"
               /\ UNCHANGED outcome
  /\ UNCHANGED <<fs, call, target, data, renderer, output>>

\* line 241
Render ==
  /\ pc = "render"
  /\ output' = Rendered(TemplateOf(renderer), vals)
  /\ pc' = "write"
  /\ UNCHANGED <<fs, call, outcome, target, data, renderer, vals, log>>

\* lines 243-246
Write ==
  /\ pc = "write"
  /\ IF IsDir(Parent(Absolute(target)))
     THEN /\ fs' = WriteFile(target, output)
          /\ log' = Append(log, <<"write", target>>)
          /\ outcome' = Return(target)
          /\ pc' = "done"
     ELSE /\ outcome' = Raise(FileNotFoundError)
          /\ pc' = "raised"
          /\ UNCHANGED <<fs, log>>
  /\ UNCHANGED <<call, target, data, renderer, vals, output>>

(***************************************************************************)
(* The invocations of generate_md explored.                                *)
(***************************************************************************)
E1Toml == <<"e","1",".","t","o","m","l">>
E1Md == <<"e","1",".","m","d">>
OutDir == <<"o","u","t">>
MissingDir == <<"g","o","n","e">>
LitA == <<"a">>

TypeNames == { "Entity", "Project", "Task", "Step", "Widget", "__members__", "mro" }
CommentRefs == { AMd, AJpg, DirD, ZTxt, LitA }
TargetArgs ==
  { [given |-> FALSE, path |-> <<>>],
    [given |-> TRUE, path |-> OutDir],
    [given |-> TRUE, path |-> MissingDir] }

\* sequences over S of length at most n
SeqsUpTo(S, n) == UNION { [1..k -> S] : k \in 0..n }

Record(type, parent, comments, kindFields, hasProcess) ==
  [name |-> "n1", type |-> type, ID |-> "id1", user |-> "u1", description |-> "desc",
   parent_link |-> parent, comments |-> comments, related_links |-> <<"c1", "c2">>]
  @@ (IF kindFields
      THEN [objective |-> "obj", start_time |-> "t0", end_time |-> "t1"] ELSE <<>>)
  @@ (IF hasProcess THEN [process |-> "proc1"] ELSE <<>>)

TomlFile(table) ==
  [kind |-> "file", listing |-> <<>>,
   content |-> [form |-> "toml", chars |-> <<>>, template |-> "", vals |-> table]]

OldText == <<"o","l","d">>

\* where the output is meant to go: under target, or under the working
\* directory when no target is given
IntendedTarget(c) ==
  Join(IF c.target.given THEN Absolute(c.target.path) ELSE Cwd, Stem(c.source) \o MdSuffix)

GenerateFS(record, tgt, preexisting) ==
  LET intended == IntendedTarget([source |-> E1Toml, target |-> tgt])
      named == <<AMd, AJpg, E1Toml, OutDir>>
  IN (Cwd :> Dir(TopLevel \o named \o IF preexisting /\ ~tgt.given THEN <<E1Md>> ELSE <<>>)) @@
     (Join(Cwd, AMd) :> File(FileTextAt(Join(Cwd, AMd)))) @@
     (Join(Cwd, AJpg) :> File(<<"x">>)) @@
     (Join(Cwd, E1Toml) :> TomlFile(<< <<"e1", record>> >>)) @@
     (Join(Cwd, OutDir) :> Dir(IF preexisting /\ tgt.given THEN <<E1Md>> ELSE <<>>)) @@
     (IF preexisting THEN (intended :> File(OldText)) ELSE <<>>) @@
     FormatFS(<<AMd, DirS>>, <<AMd, KPng>>)

Init ==
  \E type \in TypeNames, comments \in SeqsUpTo(CommentRefs, MaxComments),
     parent \in {"", "p1"}, hasProcess \in BOOLEAN,
     tgt \in TargetArgs, preexisting \in BOOLEAN :
    /\ (hasProcess => type \in {"Task", "Step"})
    /\ (preexisting => tgt.path # MissingDir)
    /\ fs = GenerateFS(Record(type, parent, comments, type \in {"Task", "Step"}, hasProcess),
                       tgt, preexisting)
    /\ call = [op |-> "generate_md", source |-> E1Toml, target |-> tgt]
    /\ outcome = Pending
    /\ pc = "start"
    /\ log = <<>>
    /\ IdleFrame

Next == Start \/ Load \/ Dispatch \/ Parse \/ Render \/ Write

Spec == Init /\ [][Next]_vars

(***************************************************************************)
(* Claims about generate_md and the parsers                                *)
(***************************************************************************)
Generating == call.op = "generate_md"
Terminated == pc \in {"done", "raised"}
ParseDone == Generating /\ pc \in {"render", "write", "done"}

\* the record the source file holds
SourceRecord == fs[Absolute(call.source)].content.vals[1][2]

\* the type names the registry is specified to cover
Registered == { "Entity", "Project", "Task", "Step" }

\* C3 (as claimed): generate on a record whose type name is not Entity,
\* Project, Task or Step fails with UnknownEntityType and in no other way,
\* also for names that are attributes of the registry object without being
\* members.  (Stated for calls that give a target directory.)
C3_UnregisteredTypeRaises ==
  (Generating /\ Terminated /\ call.target.given /\ SourceRecord["type"] \notin Registered)
    => outcome = Raise(UnknownEntityType)

\* a record generate is specified to succeed on
ValidRecord(d) ==
  /\ d["type"] \in Registered
  /\ d["type"] = "Task" => "process" \in DOMAIN d
  /\ \A i \in 1..Len(d["comments"]) : FormatComment(d["comments"][i]).status = "returned"

\* C4 (as claimed): generate without a target directory, on a valid record,
\* succeeds, writes the rendered text to <cwd>/<source stem>.md and returns
\* that path.
C4_DefaultTargetIsCwd ==
  (Generating /\ Terminated /\ ~call.target.given /\ ValidRecord(SourceRecord)) =>
    /\ outcome.status = "returned"
    /\ Absolute(outcome.value) = Join(Cwd, E1Md)
    /\ Join(Cwd, E1Md) \in DOMAIN fs
    /\ fs[Join(Cwd, E1Md)].content.form = "rendered"

WriteEvents == SelectSeq(log, LAMBDA e : e[1] = "write")

\* C5: when generate ends with UnknownEntityType or UnsupportedCommentType
\* the output file was never opened for writing: no write was made, and the
\* output path holds what it held before, nothing or the old file.
C5_NoOutputOnFailure ==
  (Generating /\ pc = "raised"
     /\ outcome.exc \in {UnknownEntityType, UnsupportedCommentType}) =>
    /\ WriteEvents = <<>>
    /\ \/ Absolute(target) \notin DOMAIN fs
       \/ fs[Absolute(target)] = File(OldText)

\* generate failed on an unsupported comment and the old output file is intact
C5_Witness ==
  /\ Generating
  /\ pc = "raised"
  /\ outcome.exc = UnsupportedCommentType
  /\ Absolute(target) \in DOMAIN fs
  /\ fs[Absolute(target)] = File(OldText)
  /\ Len(log) > 1

RECURSIVE FlatPairs(_)
\* the pairs the comments of a record format to, in list order, a directory
\* giving its pairs in the order of its lists
FlatPairs(coms) ==
  IF coms = <<>> THEN <<>>
  ELSE Let(FormatComment(Head(coms)), LAMBDA r :
       (IF r.many THEN [i \in 1..Len(r.key) |-> <<r.key[i], r.val[i]>>]
        ELSE << <<r.key, r.val>> >>) \o FlatPairs(Tail(coms)))

LastWins(pairs, dict) ==
  /\ \A i, j \in 1..Len(dict) : dict[i][1] = dict[j][1] => i = j
  /\ { dict[i][1] : i \in 1..Len(dict) } = { pairs[j][1] : j \in 1..Len(pairs) }
  /\ \A i \in 1..Len(dict) : \E j \in 1..Len(pairs) :
       /\ pairs[j] = dict[i]
       /\ \A m \in (j + 1)..Len(pairs) : pairs[m][1] # dict[i][1]

\* C6: the comments mapping parse produces holds, for every key among the
\* pairs the comments format to (taken left to right, a directory's pairs in
\* list order), the value of the last pair with that key, and no other key.
C6_LaterCommentWins ==
  ParseDone => LastWins(FlatPairs(data["comments"]), vals["comments"])

\* two pairs with one key and different values were merged
C6_Witness ==
  /\ ParseDone
  /\ Let(FlatPairs(data["comments"]), LAMBDA pairs :
       \E i, j \in 1..Len(pairs) :
         i < j /\ pairs[i][1] = pairs[j][1] /\ pairs[i][2] # pairs[j][2])

BaseFields == { "name", "type", "ID", "user", "description", "parent", "comments", "children" }

\* C8: a Step record, with or without a process field, parses to process = ""
\* and parsing never fails for want of process; a Task record parses to its
\* own process; both copy objective, start_time and end_time, and their base
\* fields are those the base parser gives for the record.
C8_StepProcessEmptyTaskVerbatim ==
  /\ ParseDone =>
       /\ renderer = "StepRenderer" => vals["process"] = ""
       /\ renderer = "TaskRenderer" => vals["process"] = data["process"]
       /\ renderer \in {"StepRenderer", "TaskRenderer"} =>
            /\ vals["objective"] = data["objective"]
            /\ vals["start_time"] = data["start_time"]
            /\ vals["end_time"] = data["end_time"]
            /\ \A f \in BaseFields : vals[f] = EntityParser(data).value[f]
  /\ (Generating /\ pc = "raised" /\ renderer = "StepRenderer") =>
       outcome.exc # KeyError("process")

\* a Step record holding a process was parsed
C8_Witness ==
  /\ ParseDone
  /\ renderer = "StepRenderer"
  /\ "process" \in DOMAIN data
  /\ data["process"] # ""
  /\ vals["process"] = ""

\* the classifications of top-level comment references (the nested files of
\* a directory are classified by their absolute paths)
TopLevelClassified ==
  SelectSeq(log, LAMBDA e : e[1] = "classify" /\ e[2][1] # "/")

FirstFailing(coms) ==
  CHOOSE i \in 1..Len(coms) :
    /\ FormatComment(coms[i]).status = "raised"
    /\ \A j \in 1..(i - 1) : FormatComment(coms[j]).status = "returned"

\* C10 (as claimed): generate loads, dispatches, parses, renders and writes
\* in that order: for an unregistered type the failure is UnknownEntityType
\* and no comment was classified or read; comments are formatted in list
\* order and the first unsupported one aborts before any later one is
\* touched; the write comes last.
C10_StepsInOrder ==
  /\ (Generating /\ Terminated /\ call.target.given
        /\ SourceRecord["type"] \notin Registered) =>
       /\ outcome = Raise(UnknownEntityType)
       /\ log = << <<"read", call.source>> >>
  /\ (Generating /\ pc = "raised" /\ outcome.exc = UnsupportedCommentType) =>
       TopLevelClassified =
         [i \in 1..FirstFailing(data["comments"]) |-> <<"classify", data["comments"][i]>>]
  /\ (Generating /\ pc = "done") =>
       /\ Head(log) = <<"read", call.source>>
       /\ log[Len(log)] = <<"write", target>>
       /\ Len(WriteEvents) = 1

====
